---- MODULE Spec2Model ----
(***************************************************************************)
(* A model of the token-popping transcript parser of src/game.py           *)
(* (parse_game and the from_tokens builders), together with the schema of  *)
(* src/interpret/parse_game.py.  A text is a sequence of lexemes: words    *)
(* (separator-free strings) and the one-character separators " " and ",".  *)
(* A token is a string.  A Python exception is an outcome: "IndexError"    *)
(* (tokens[0] / tokens.pop(0) on an exhausted list) or "ValueError" (an    *)
(* explicit raise, int() of a non-number, PlayType() of a non-member).     *)
(***************************************************************************)
EXTENDS Integers, Sequences, FiniteSets, TLC

(***************************************************************************)
(* Bounds of the model.                                                    *)
(***************************************************************************)
MaxPlays == 2
MaxMoves == 2
MaxRuns == 2

(***************************************************************************)
(* Python values.                                                          *)
(***************************************************************************)
\* An Optional slot is a sequence of length at most one: None is <<>>.
None == <<>>
Some(v) == <<v>>

\* The result of a builder: the exception raised ("none" when it returns),
\* the value built and the tokens left in the list it popped from.
\* An exception is named by what raised it: "IndexError" (tokens[0],
\* tokens[1] or tokens.pop(0) on a list too short), "ValueError" (a raise
\* ValueError(f"Expected token ..., got '...'") statement), "int" (int() of a
\* token that is no numeral), "PlayType" (PlayType() of a value that is no
\* member) or "unsupported" (the raise of "case _" in Parser.__parse_play);
\* the last three are ValueErrors too.
Ok(v, rest) == [err |-> "none", val |-> v, rest |-> rest]
Raise(e) == [err |-> e, val |-> None, rest |-> <<>>]

\* The element of a set of one element.  Below, "x \in {e}" in a set
\* constructor names the value of e, as an assignment "x = e" does.
Only(S) == CHOOSE x \in S : TRUE

\* The class of the exception.
ExceptionClass(e) ==
  IF e \in {"int", "PlayType", "unsupported"} THEN "ValueError" ELSE e

\* What the message of the exception names: "pop from empty list" and "list
\* index out of range" name nothing; "Expected token [PLAY], got 'x'" names
\* the expected and the found token; "invalid literal for int() with base 10:
\* 'x'" and "'X' is not a valid PlayType" name the found one.
Message(e) ==
  CASE e = "ValueError" -> {"expected", "found"}
    [] e \in {"int", "PlayType"} -> {"found"}
    [] OTHER -> {}

\* sep.join(words)
RECURSIVE Join(_, _)
Join(words, sep) ==
  IF words = <<>> THEN ""
  ELSE IF Len(words) = 1 THEN words[1]
  ELSE words[1] \o sep \o Join(Tail(words), sep)

\* str.upper() on the words the model's texts are made of; a word with no
\* lower-case letter is its own upper case.
UpperTable ==
  [w \in {"Strikeout", "strikeout", "Game", "Advisory", "home", "run", "Home",
          "Run", "Foo", "Bar", "foo_bar", "Pickoff", "Jane", "Doe", "John",
          "Roe", "Test", "Park", "Clear", "extra", "[out]", "Groundout"} |->
     CASE w = "Strikeout" -> "STRIKEOUT"
       [] w = "Groundout" -> "GROUNDOUT"
       [] w = "strikeout" -> "STRIKEOUT"
       [] w = "Game" -> "GAME"
       [] w = "Advisory" -> "ADVISORY"
       [] w = "home" -> "HOME"
       [] w = "Home" -> "HOME"
       [] w = "run" -> "RUN"
       [] w = "Run" -> "RUN"
       [] w = "Foo" -> "FOO"
       [] w = "Bar" -> "BAR"
       [] w = "foo_bar" -> "FOO_BAR"
       [] w = "Pickoff" -> "PICKOFF"
       [] w = "Jane" -> "JANE"
       [] w = "Doe" -> "DOE"
       [] w = "John" -> "JOHN"
       [] w = "Roe" -> "ROE"
       [] w = "Test" -> "TEST"
       [] w = "Park" -> "PARK"
       [] w = "Clear" -> "CLEAR"
       [] w = "extra" -> "EXTRA"
       [] w = "[out]" -> "[OUT]"]
upper(w) == IF w \in DOMAIN UpperTable THEN UpperTable[w] ELSE w

\* int(token): the decimal numerals of the model's texts; int() of any other
\* token raises ValueError.
IntTable ==
  [t \in {"0", "1", "2", "3", "4", "5", "7", "70", "100", "200"} |->
     CASE t = "0" -> 0 [] t = "1" -> 1 [] t = "2" -> 2 [] t = "3" -> 3
       [] t = "4" -> 4 [] t = "5" -> 5 [] t = "7" -> 7 [] t = "70" -> 70
       [] t = "100" -> 100 [] t = "200" -> 200]
IsInt(t) == t \in DOMAIN IntTable

\* re.match(r"\d+", token): the token starts with a digit.
StartsWithDigit(t) == IsInt(t) \/ t \in {"2023-04-10", "5th"}

(***************************************************************************)
(* The lexer: re.split(r"[\s,]+", text).                                   *)
(***************************************************************************)
Separators == {" ", ","}

\* The pieces are the maximal separator-free stretches of the text, in order;
\* a text that begins (ends) with a separator, and the empty text, yield an
\* empty piece at that end.
re_split(text) ==
  Only({LET n == Len(s)
            IsSep(i) == s[i] \in Separators
            IsStart(i) == ~IsSep(i) /\ (i = 1 \/ IsSep(i - 1))
            StretchEnd(i) ==
              CHOOSE j \in i..n :
                (\A k \in i..j : ~IsSep(k)) /\ (j = n \/ IsSep(j + 1))
        IN
        IF n = 0 THEN <<"">>
        ELSE (IF IsSep(1) THEN <<"">> ELSE <<>>)
             \o Only({[k \in 1..Len(starts) |->
                         Join(SubSeq(s, starts[k], StretchEnd(starts[k])), "")] :
                      starts \in {SelectSeq([i \in 1..n |-> i], IsStart)}})
             \o (IF IsSep(n) THEN <<"">> ELSE <<>>) :
        s \in {text}})

(***************************************************************************)
(* Enumerations and marker lists of src/game.py.                           *)
(***************************************************************************)
PlayType ==
  {"GROUNDOUT", "BUNT_GROUNDOUT", "STRIKEOUT", "LINEOUT", "BUNT_LINEOUT",
   "FLYOUT", "POP_OUT", "BUNT_POP_OUT", "FORCEOUT", "FIELDERS_CHOICE_OUT",
   "DOUBLE_PLAY", "TRIPLE_PLAY", "RUNNER_DOUBLE_PLAY", "RUNNER_TRIPLE_PLAY",
   "GROUNDED_INTO_DOUBLE_PLAY", "STRIKEOUT_DOUBLE_PLAY", "PICKOFF",
   "PICKOFF_ERROR", "CAUGHT_STEALING", "PICKOFF_CAUGHT_STEALING",
   "WILD_PITCH", "RUNNER_OUT", "FIELD_OUT", "BALK", "PASSED_BALL", "ERROR",
   "SINGLE", "DOUBLE", "TRIPLE", "HOME_RUN", "WALK", "INTENT_WALK",
   "HIT_BY_PITCH", "FIELDERS_CHOICE", "CATCHER_INTERFERENCE", "STOLEN_BASE",
   "SAC_FLY", "SAC_FLY_DOUBLE_PLAY", "SAC_BUNT", "SAC_BUNT_DOUBLE_PLAY",
   "FIELD_ERROR", "GAME_ADVISORY"}

ALL_PLAY_CONTENT_TOKENS ==
  {"[BATTER]", "[PITCHER]", "[FIELDERS]", "[CATCHER]", "[RUNNER]",
   "[SCORING_RUNNER]", "[BASE]", "[MOVEMENTS]"}

ALL_POSITION_TOKENS ==
  {"[PITCHER]", "[CATCHER]", "[FIRST_BASE]", "[SECOND_BASE]", "[THIRD_BASE]",
   "[SHORTSTOP]", "[LEFT_FIELD]", "[CENTER_FIELD]", "[RIGHT_FIELD]",
   "[DESIGNATED_HITTER]", "[PINCH_HITTER]", "[PINCH_RUNNER]",
   "[TWO_WAY_PLAYER]", "[OUTFIELD]", "[INFIELD]", "[UTILITY]",
   "[RELIEF_PITCHER]", "[STARTING_PITCHER]"}

\* position_token[1:-1]: the marker without its brackets.
PositionName(tok) ==
  CASE tok = "[PITCHER]" -> "PITCHER"
    [] tok = "[CATCHER]" -> "CATCHER"
    [] tok = "[FIRST_BASE]" -> "FIRST_BASE"
    [] tok = "[SECOND_BASE]" -> "SECOND_BASE"
    [] tok = "[THIRD_BASE]" -> "THIRD_BASE"
    [] tok = "[SHORTSTOP]" -> "SHORTSTOP"
    [] tok = "[LEFT_FIELD]" -> "LEFT_FIELD"
    [] tok = "[CENTER_FIELD]" -> "CENTER_FIELD"
    [] tok = "[RIGHT_FIELD]" -> "RIGHT_FIELD"
    [] tok = "[DESIGNATED_HITTER]" -> "DESIGNATED_HITTER"
    [] tok = "[PINCH_HITTER]" -> "PINCH_HITTER"
    [] tok = "[PINCH_RUNNER]" -> "PINCH_RUNNER"
    [] tok = "[TWO_WAY_PLAYER]" -> "TWO_WAY_PLAYER"
    [] tok = "[OUTFIELD]" -> "OUTFIELD"
    [] tok = "[INFIELD]" -> "INFIELD"
    [] tok = "[UTILITY]" -> "UTILITY"
    [] tok = "[RELIEF_PITCHER]" -> "RELIEF_PITCHER"
    [] OTHER -> "STARTING_PITCHER"

(***************************************************************************)
(* Movement.from_tokens (src/game.py).                                     *)
(***************************************************************************)
Movement(runner, start_base, end_base, is_out) ==
  [runner |-> runner, start_base |-> start_base, end_base |-> end_base,
   is_out |-> is_out]

\* while tokens[1] != "->": name_tokens.append(tokens.pop(0))
RECURSIVE Movement_runner(_, _)
Movement_runner(tokens, name_tokens) ==
  IF Len(tokens) < 2 THEN Raise("IndexError")
  ELSE IF tokens[2] = "->" THEN Ok(name_tokens, tokens)
  ELSE Movement_runner(Tail(tokens), Append(name_tokens, Head(tokens)))

Movement_start_base_home0(start_base_token) ==
  IF start_base_token = "home" THEN Ok(0, <<>>)
  ELSE IF IsInt(start_base_token) THEN Ok(IntTable[start_base_token], <<>>)
  ELSE Raise("int")

Movement_start_base(start_base_token) ==
  IF start_base_token = "home" THEN Ok(4, <<>>)
  ELSE IF IsInt(start_base_token) THEN Ok(IntTable[start_base_token], <<>>)
  ELSE Raise("int")

Movement_end_base(end_base_token) ==
  IF end_base_token = "home" THEN Ok(4, <<>>)
  ELSE IF IsInt(end_base_token) THEN Ok(IntTable[end_base_token], <<>>)
  ELSE Raise("int")

Movement_out_far(tokens) ==
  IF tokens = <<>> THEN Raise("IndexError")
  ELSE IF tokens[1] = "[out]" THEN Ok(TRUE, Tail(tokens))
  ELSE Ok(\E i \in 1..Len(tokens) : tokens[i] = "[out]", tokens)

Movement_out_kept(tokens) ==
  IF tokens = <<>> THEN Raise("IndexError")
  ELSE IF tokens[1] = "[out]" THEN Ok(TRUE, tokens)
  ELSE Ok(FALSE, tokens)

\* if tokens[0] == "[out]": is_out = True; tokens.pop(0)
Movement_out(tokens) ==
  IF tokens = <<>> THEN Raise("IndexError")
  ELSE IF tokens[1] = "[out]" THEN Ok(TRUE, Tail(tokens))
  ELSE Ok(FALSE, tokens)

Movement_from_tokens(tokens) ==
  Only({
  IF n.err # "none" THEN Raise(n.err)
  ELSE
    Only({
    IF sb.err # "none" THEN Raise(sb.err)
    ELSE IF t2 = <<>> THEN Raise("IndexError")
    ELSE
      Only({
      IF eb.err # "none" THEN Raise(eb.err)
      ELSE IF o.err # "none" THEN Raise(o.err)
      ELSE Ok(Movement(Join(n.val, " "), sb.val, eb.val, o.val), o.rest) :
      eb \in {Movement_end_base(t2[1])}, o \in {Movement_out(Tail(t2))}}) :
    sb \in {Movement_start_base(n.rest[1])}, t2 \in {Tail(Tail(n.rest))}}) :
  n \in {Movement_runner(tokens, <<>>)}})

(***************************************************************************)
(* PlayType.from_text (src/game.py).  The text is " ".join(play_type_tokens)*)
(* and no token holds a space, so replacing the spaces by "_" and          *)
(* upper-casing joins the upper-cased tokens with "_".                     *)
(***************************************************************************)
PlayType_from_text_exact(play_type_tokens) ==
  LET value == Join(play_type_tokens, "_") IN
  IF value \in PlayType THEN Ok(value, <<>>) ELSE Raise("PlayType")

PlayType_from_text(play_type_tokens) ==
  LET value ==
        Join([i \in 1..Len(play_type_tokens) |-> upper(play_type_tokens[i])],
             "_")
  IN
  IF value \in PlayType THEN Ok(value, <<>>) ELSE Raise("PlayType")

(***************************************************************************)
(* PlayContents.from_tokens (src/game.py).                                 *)
(***************************************************************************)
PlayContents ==
  [batter |-> None, pitcher |-> None, fielders |-> None, catcher |-> None,
   runner |-> None, scoring_runner |-> None, base |-> None,
   movements |-> None]

\* while tokens[0] != "[MOVEMENTS]": context_tokens.append(tokens.pop(0))
RECURSIVE PlayContents_context_tokens(_, _)
PlayContents_context_tokens(tokens, context_tokens) ==
  IF tokens = <<>> THEN Raise("IndexError")
  ELSE IF Head(tokens) = "[MOVEMENTS]" THEN Ok(context_tokens, tokens)
  ELSE PlayContents_context_tokens(Tail(tokens),
                                   Append(context_tokens, Head(tokens)))

\* The name loop of a slot: pops while the next context token is no marker.
RECURSIVE PlayContents_name(_, _)
PlayContents_name(context_tokens, name_tokens) ==
  IF context_tokens # <<>> /\ Head(context_tokens) \notin ALL_PLAY_CONTENT_TOKENS
  THEN PlayContents_name(Tail(context_tokens),
                         Append(name_tokens, Head(context_tokens)))
  ELSE Ok(Join(name_tokens, " "), context_tokens)

PlayContents_base(base_token) ==
  IF base_token = "home" THEN Ok(4, <<>>)
  ELSE IF IsInt(base_token) THEN Ok(IntTable[base_token], <<>>)
  ELSE Raise("int")

\* while context_tokens: token = context_tokens.pop(0); match token: ...
\* A token that is no case of the match is dropped.
RECURSIVE PlayContents_fields(_, _)
PlayContents_fields(context_tokens, contents) ==
  IF context_tokens = <<>> THEN Ok(contents, <<>>)
  ELSE
    Only({
    CASE token = "[BATTER]" ->
           PlayContents_fields(n.rest, [contents EXCEPT !.batter = Some(n.val)])
      [] token = "[PITCHER]" ->
           PlayContents_fields(n.rest, [contents EXCEPT !.pitcher = Some(n.val)])
      [] token = "[FIELDERS]" ->
           PlayContents_fields(n.rest,
                               [contents EXCEPT !.fielders = Some(<<n.val>>)])
      [] token = "[CATCHER]" ->
           PlayContents_fields(n.rest, [contents EXCEPT !.catcher = Some(n.val)])
      [] token = "[RUNNER]" ->
           PlayContents_fields(n.rest, [contents EXCEPT !.runner = Some(n.val)])
      [] token = "[SCORING_RUNNER]" ->
           PlayContents_fields(n.rest,
                               [contents EXCEPT !.scoring_runner = Some(n.val)])
      [] token = "[BASE]" ->
           IF Tail(context_tokens) = <<>> THEN Raise("IndexError")
           ELSE Only({IF b.err # "none" THEN Raise(b.err)
                      ELSE PlayContents_fields(
                             Tail(Tail(context_tokens)),
                             [contents EXCEPT !.base = Some(b.val)]) :
                      b \in {PlayContents_base(context_tokens[2])}})
      [] OTHER -> PlayContents_fields(Tail(context_tokens), contents) :
    token \in {Head(context_tokens)},
    n \in {PlayContents_name(Tail(context_tokens), <<>>)}})

\* The part of PlayContents.from_tokens before the movements loop; the pop of
\* the [MOVEMENTS] token follows a loop that stopped on it.
PlayContents_from_tokens(tokens) ==
  Only({IF c.err # "none" THEN Raise(c.err)
        ELSE Only({IF f.err # "none" THEN Raise(f.err)
                   ELSE Ok(f.val, Tail(c.rest)) :
                   f \in {PlayContents_fields(c.val, PlayContents)}}) :
        c \in {PlayContents_context_tokens(tokens, <<>>)}})

(***************************************************************************)
(* Play.from_tokens (src/game.py), up to the choice between an empty       *)
(* PlayContents and PlayContents.from_tokens.                              *)
(***************************************************************************)
Play(play_type, contents) == [play_type |-> play_type, contents |-> contents]

\* The stop condition of the play-type loop.
Play_type_stops(tok) == tok \in ALL_PLAY_CONTENT_TOKENS \/ tok = "[GAME_END]"

RECURSIVE Play_type_tokens(_, _)
Play_type_tokens(tokens, play_type_tokens) ==
  IF tokens = <<>> THEN Raise("IndexError")
  ELSE IF Play_type_stops(Head(tokens)) THEN Ok(play_type_tokens, tokens)
  ELSE Play_type_tokens(Tail(tokens), Append(play_type_tokens, Head(tokens)))

Play_type(tokens) ==
  IF tokens = <<>> THEN Raise("IndexError")
  ELSE IF Head(tokens) # "[PLAY]" THEN Raise("ValueError")
  ELSE Only({IF t.err # "none" THEN Raise(t.err)
             ELSE Only({IF p.err # "none" THEN Raise(p.err)
                        ELSE Ok(p.val, t.rest) :
                        p \in {PlayType_from_text(t.val)}}) :
             t \in {Play_type_tokens(Tail(tokens), <<>>)}})

(***************************************************************************)
(* Player, Team, Weather and GameContext (src/game.py).                    *)
(***************************************************************************)
RECURSIVE Player_name(_, _)
Player_name(tokens, name_tokens) ==
  IF tokens = <<>> THEN Raise("IndexError")
  ELSE IF Head(tokens) \in ALL_POSITION_TOKENS \cup {"[TEAM]", "[GAME_START]"}
       THEN Ok(Join(name_tokens, " "), tokens)
  ELSE Player_name(Tail(tokens), Append(name_tokens, Head(tokens)))

Player_from_tokens(tokens) ==
  IF tokens = <<>> THEN Raise("IndexError")
  ELSE IF Head(tokens) \notin ALL_POSITION_TOKENS THEN Raise("ValueError")
  ELSE Only({IF n.err # "none" THEN Raise(n.err)
             ELSE Ok([name |-> n.val, position |-> PositionName(Head(tokens))],
                     n.rest) :
             n \in {Player_name(Tail(tokens), <<>>)}})

RECURSIVE Team_players(_, _)
Team_players(tokens, players) ==
  IF tokens = <<>> THEN Raise("IndexError")
  ELSE IF Head(tokens) = "[TEAM]" \/ Head(tokens) = "[GAME_START]"
       THEN Ok(players, tokens)
  ELSE Only({IF p.err # "none" THEN Raise(p.err)
             ELSE Team_players(p.rest, Append(players, p.val)) :
             p \in {Player_from_tokens(tokens)}})

Team_from_tokens(tokens) ==
  IF tokens = <<>> THEN Raise("IndexError")
  ELSE IF Head(tokens) # "[TEAM]" THEN Raise("ValueError")
  ELSE IF Tail(tokens) = <<>> THEN Raise("IndexError")
  ELSE IF ~IsInt(tokens[2]) THEN Raise("int")
  ELSE Only({IF ps.err # "none" THEN Raise(ps.err)
             ELSE Ok([id |-> IntTable[tokens[2]], players |-> ps.val],
                     ps.rest) :
             ps \in {Team_players(Tail(Tail(tokens)), <<>>)}})

\* while not re.match(r"\d+", tokens[0]): condition_tokens.append(...)
RECURSIVE Weather_condition(_, _)
Weather_condition(tokens, condition_tokens) ==
  IF tokens = <<>> THEN Raise("IndexError")
  ELSE IF StartsWithDigit(Head(tokens))
       THEN Ok(Join(condition_tokens, " "), tokens)
  ELSE Weather_condition(Tail(tokens), Append(condition_tokens, Head(tokens)))

Weather_from_tokens(tokens) ==
  IF tokens = <<>> THEN Raise("IndexError")
  ELSE IF Head(tokens) # "[WEATHER]" THEN Raise("ValueError")
  ELSE Only({IF c.err # "none" THEN Raise(c.err)
             ELSE IF ~IsInt(c.rest[1]) THEN Raise("int")
             ELSE IF Tail(c.rest) = <<>> THEN Raise("IndexError")
             ELSE IF ~IsInt(c.rest[2]) THEN Raise("int")
             ELSE Ok([condition |-> c.val,
                      temperature |-> IntTable[c.rest[1]],
                      wind_speed |-> IntTable[c.rest[2]]],
                     Tail(Tail(c.rest))) :
             c \in {Weather_condition(Tail(tokens), <<>>)}})

\* while tokens[0] != "[WEATHER]": venue_tokens.append(tokens.pop(0))
RECURSIVE GameContext_venue(_, _)
GameContext_venue(tokens, venue_tokens) ==
  IF tokens = <<>> THEN Raise("IndexError")
  ELSE IF Head(tokens) = "[WEATHER]" THEN Ok(Join(venue_tokens, " "), tokens)
  ELSE GameContext_venue(Tail(tokens), Append(venue_tokens, Head(tokens)))

GameContext_from_tokens(tokens) ==
  IF tokens = <<>> THEN Raise("IndexError")
  ELSE IF tokens[1] # "[GAME]" THEN Raise("ValueError")
  ELSE IF Len(tokens) < 2 THEN Raise("IndexError")
  ELSE IF ~IsInt(tokens[2]) THEN Raise("int")
  ELSE IF Len(tokens) < 3 THEN Raise("IndexError")
  ELSE IF tokens[3] # "[DATE]" THEN Raise("ValueError")
  ELSE IF Len(tokens) < 4 THEN Raise("IndexError")
  ELSE IF Len(tokens) < 5 THEN Raise("IndexError")
  ELSE IF tokens[5] # "[VENUE]" THEN Raise("ValueError")
  ELSE
    Only({IF v.err # "none" THEN Raise(v.err)
          ELSE
      Only({IF w.err # "none" THEN Raise(w.err)
            ELSE
        Only({IF home_team.err # "none" THEN Raise(home_team.err)
              ELSE
          Only({IF away_team.err # "none" THEN Raise(away_team.err)
                ELSE Ok([game_pk |-> IntTable[tokens[2]], date |-> tokens[4],
                         venue |-> v.val, weather |-> w.val,
                         home_team |-> home_team.val,
                         away_team |-> away_team.val],
                        away_team.rest) :
                away_team \in {Team_from_tokens(home_team.rest)}}) :
              home_team \in {Team_from_tokens(w.rest)}}) :
            w \in {Weather_from_tokens(v.rest)}}) :
          v \in {GameContext_venue(SubSeq(tokens, 6, Len(tokens)), <<>>)}})

(***************************************************************************)
(* The schema of Parser.__parse_play (src/interpret/parse_game.py): the    *)
(* field markers each play-type is followed by, in order, before           *)
(* [MOVEMENTS].                                                            *)
(***************************************************************************)
Schema(play_type) ==
  CASE play_type \in {"GROUNDOUT", "BUNT_GROUNDOUT", "LINEOUT", "BUNT_LINEOUT",
                      "FLYOUT", "POP_OUT", "BUNT_POP_OUT", "FORCEOUT",
                      "DOUBLE_PLAY", "TRIPLE_PLAY", "RUNNER_DOUBLE_PLAY",
                      "RUNNER_TRIPLE_PLAY", "GROUNDED_INTO_DOUBLE_PLAY",
                      "STRIKEOUT_DOUBLE_PLAY", "FIELDERS_CHOICE",
                      "CATCHER_INTERFERENCE", "FIELD_ERROR"} ->
         <<"[BATTER]", "[PITCHER]", "[FIELDERS]">>
    [] play_type \in {"STRIKEOUT", "SINGLE", "DOUBLE", "TRIPLE", "HOME_RUN",
                      "WALK", "INTENT_WALK", "HIT_BY_PITCH"} ->
         <<"[BATTER]", "[PITCHER]">>
    [] play_type \in {"PICKOFF", "PICKOFF_ERROR", "CAUGHT_STEALING",
                      "PICKOFF_CAUGHT_STEALING"} ->
         <<"[BASE]", "[RUNNER]", "[FIELDERS]">>
    [] play_type = "WILD_PITCH" -> <<"[PITCHER]", "[RUNNER]">>
    [] play_type \in {"RUNNER_OUT", "FIELD_OUT"} -> <<"[RUNNER]", "[FIELDERS]">>
    [] play_type = "BALK" -> <<"[PITCHER]">>
    [] play_type \in {"PASSED_BALL", "ERROR"} -> <<"[PITCHER]", "[CATCHER]">>
    [] play_type = "STOLEN_BASE" -> <<"[BASE]", "[RUNNER]">>
    [] play_type \in {"SAC_FLY", "SAC_FLY_DOUBLE_PLAY", "FIELDERS_CHOICE_OUT"} ->
         <<"[BATTER]", "[PITCHER]", "[FIELDERS]", "[SCORING_RUNNER]">>
    [] play_type \in {"SAC_BUNT", "SAC_BUNT_DOUBLE_PLAY"} ->
         <<"[BATTER]", "[PITCHER]", "[FIELDERS]", "[RUNNER]">>
    [] OTHER -> <<>>

\* The PlayContents slot a field marker fills.
SlotOf(marker) ==
  CASE marker = "[BATTER]" -> "batter"
    [] marker = "[PITCHER]" -> "pitcher"
    [] marker = "[FIELDERS]" -> "fielders"
    [] marker = "[CATCHER]" -> "catcher"
    [] marker = "[RUNNER]" -> "runner"
    [] marker = "[SCORING_RUNNER]" -> "scoring_runner"
    [] OTHER -> "base"

Slots ==
  {"batter", "pitcher", "fielders", "catcher", "runner", "scoring_runner",
   "base"}

SchemaSlots(play_type) ==
  {SlotOf(Schema(play_type)[i]) : i \in 1..Len(Schema(play_type))}

PopulatedSlots(contents) == {s \in Slots : contents[s] # None}

(***************************************************************************)
(* The regex-driven parser of src/interpret/parse_game.py.  It works on    *)
(* the text itself: what is left of it after each match, stripped of the   *)
(* whitespace at both ends.  A pattern is written as in the source.        *)
(***************************************************************************)
\* str.strip(): the text without the whitespace at its two ends.
strip(text) ==
  LET black == {i \in 1..Len(text) : text[i] # " "} IN
  IF black = {} THEN <<>>
  ELSE SubSeq(text, CHOOSE i \in black : \A j \in black : i <= j,
              CHOOSE i \in black : \A j \in black : i >= j)

\* The string a text is.
str(text) == Join(text, "")

\* str.split(", "): the stretches of the text between the places where a
\* comma is followed by a space.
split(text) ==
  LET n == Len(text)
      cuts == SelectSeq([i \in 1..n |-> i],
                        LAMBDA i : text[i] = "," /\ i < n /\ text[i + 1] = " ")
  IN [k \in 1..(Len(cuts) + 1) |->
        SubSeq(text, IF k = 1 THEN 1 ELSE cuts[k - 1] + 2,
               IF k > Len(cuts) THEN n ELSE cuts[k] - 1)]

\* The words of the model's texts that begin with "[".
BracketWords ==
  {"[GAME]", "[DATE]", "[VENUE]", "[WEATHER]", "[TEAM]", "[GAME_START]",
   "[PLAY]", "[GAME_END]", "[out]"}
  \cup ALL_POSITION_TOKENS \cup ALL_PLAY_CONTENT_TOKENS

\* "|".join(ALL_POSITION_TOKENS), brackets escaped.
ALL_POSITION_TOKENS_PATTERN == "\\[PITCHER\\]|...|\\[STARTING_PITCHER\\]"

\* The patterns that match one literal, and the literal.
Literals ==
  [p \in {"\\[GAME\\]", "\\[DATE\\]", "\\[VENUE\\]", "\\[WEATHER\\]",
          "\\[TEAM\\]", "\\[GAME_START\\]", "\\[GAME_END\\]", "\\[PLAY\\]",
          "\\[BATTER\\]", "\\[PITCHER\\]", "\\[CATCHER\\]", "\\[RUNNER\\]",
          "\\[SCORING_RUNNER\\]", "\\[FIELDERS\\]", "\\[MOVEMENTS\\]",
          "\\[BASE\\]", "->"} |->
     CASE p = "\\[GAME\\]" -> "[GAME]"
       [] p = "\\[DATE\\]" -> "[DATE]"
       [] p = "\\[VENUE\\]" -> "[VENUE]"
       [] p = "\\[WEATHER\\]" -> "[WEATHER]"
       [] p = "\\[TEAM\\]" -> "[TEAM]"
       [] p = "\\[GAME_START\\]" -> "[GAME_START]"
       [] p = "\\[GAME_END\\]" -> "[GAME_END]"
       [] p = "\\[PLAY\\]" -> "[PLAY]"
       [] p = "\\[BATTER\\]" -> "[BATTER]"
       [] p = "\\[PITCHER\\]" -> "[PITCHER]"
       [] p = "\\[CATCHER\\]" -> "[CATCHER]"
       [] p = "\\[RUNNER\\]" -> "[RUNNER]"
       [] p = "\\[SCORING_RUNNER\\]" -> "[SCORING_RUNNER]"
       [] p = "\\[FIELDERS\\]" -> "[FIELDERS]"
       [] p = "\\[MOVEMENTS\\]" -> "[MOVEMENTS]"
       [] p = "\\[BASE\\]" -> "[BASE]"
       [] p = "->" -> "->"]

\* The numerals of more than one digit and the date: their first digit and
\* what follows it.
DigitSplit ==
  [w \in {"70", "100", "200", "2023-04-10"} |->
     CASE w = "70" -> <<"7", "0">>
       [] w = "100" -> <<"1", "00">>
       [] w = "200" -> <<"2", "00">>
       [] w = "2023-04-10" -> <<"2", "023-04-10">>]

\* re.match(pattern, word): what the pattern matches at the start of a word
\* and what it leaves of the word, or <<>> when it does not match there.
re_match(pattern, w) ==
  CASE pattern \in DOMAIN Literals ->
         IF w = Literals[pattern] THEN <<w, "">> ELSE <<>>
    [] pattern = ALL_POSITION_TOKENS_PATTERN ->
         IF w \in ALL_POSITION_TOKENS THEN <<w, "">> ELSE <<>>
    [] pattern = "\\d+" ->
         IF IsInt(w) THEN <<w, "">>
         ELSE IF w = "2023-04-10" THEN <<"2023", "-04-10">>
         ELSE <<>>
    [] pattern = "\\d{4}-\\d{2}-\\d{2}" ->
         IF w = "2023-04-10" THEN <<w, "">> ELSE <<>>
    [] pattern = "home|\\d" ->
         IF w = "home" \/ (IsInt(w) /\ w \notin DOMAIN DigitSplit)
         THEN <<w, "">>
         ELSE IF w \in DOMAIN DigitSplit THEN DigitSplit[w]
         ELSE <<>>
    [] pattern = "\\[" -> IF w \in BracketWords THEN <<"[", w>> ELSE <<>>
    [] pattern = "\\[[A-Z]" ->
         IF w \in BracketWords \ {"[out]"} THEN <<"[", w>> ELSE <<>>
    [] OTHER -> <<>>

\* Parser.__match: the token the pattern matches at the start of the text,
\* and the rest of the text, stripped.
Parser_match(text, pattern) ==
  IF text = <<>> THEN Raise("ValueError")
  ELSE LET m == re_match(pattern, text[1]) IN
       IF m = <<>> THEN Raise("ValueError")
       ELSE Ok(m[1], strip((IF m[2] = "" THEN <<>> ELSE <<m[2]>>)
                           \o Tail(text)))

\* Parser.__skip: Parser.__match, the token dropped.
Parser_skip(text, pattern) == Parser_match(text, pattern)

\* Parser.__match_until: the shortest stretch of one character or more at
\* the start of the text that the pattern follows, stripped, and the rest of
\* the text, stripped.  Inside a word a pattern matches only after the first
\* digit of a numeral.
Parser_match_until(text, pattern) ==
  LET n == Len(text)
      stops == {k \in 1..(n - 1) : re_match(pattern, text[k + 1]) # <<>>}
  IN
  IF /\ n > 0
     /\ pattern \in {"\\d+", "home|\\d"}
     /\ text[1] \in DOMAIN DigitSplit
  THEN Ok(<<DigitSplit[text[1]][1]>>,
          strip(<<DigitSplit[text[1]][2]>> \o Tail(text)))
  ELSE IF stops = {} THEN Raise("ValueError")
  ELSE LET k == CHOOSE i \in stops : \A j \in stops : i <= j IN
       Ok(strip(SubSeq(text, 1, k)), strip(SubSeq(text, k + 1, n)))

\* Parser.__parse_player
Parser_parse_player(text) ==
  Only({IF p.err # "none" THEN Raise(p.err)
        ELSE Only({IF n.err # "none" THEN Raise(n.err)
                   ELSE Ok([name |-> str(n.val),
                            position |-> PositionName(p.val)], n.rest) :
                   n \in {Parser_match_until(p.rest, "\\[")}}) :
        p \in {Parser_match(text, ALL_POSITION_TOKENS_PATTERN)}})

\* while not text.startswith("[TEAM]") and not text.startswith("[GAME_START]")
RECURSIVE Parser_parse_team_players(_, _)
Parser_parse_team_players(text, players) ==
  IF text # <<>> /\ text[1] \in {"[TEAM]", "[GAME_START]"}
  THEN Ok(players, text)
  ELSE Only({IF p.err # "none" THEN Raise(p.err)
             ELSE Parser_parse_team_players(p.rest, Append(players, p.val)) :
             p \in {Parser_parse_player(text)}})

\* Parser.__parse_team
Parser_parse_team(text) ==
  Only({IF t.err # "none" THEN Raise(t.err)
        ELSE Only({IF id.err # "none" THEN Raise(id.err)
                   ELSE Only({IF ps.err # "none" THEN Raise(ps.err)
                              ELSE Ok([id |-> IntTable[id.val],
                                       players |-> ps.val], ps.rest) :
                              ps \in {Parser_parse_team_players(id.rest, <<>>)}}) :
                   id \in {Parser_match(t.rest, "\\d+")}}) :
        t \in {Parser_skip(text, "\\[TEAM\\]")}})

\* Parser.__parse_context: the two teams.
Parser_parse_context_teams(text, game_pk, date, venue, weather) ==
  Only({IF home_team.err # "none" THEN Raise(home_team.err)
        ELSE Only({IF away_team.err # "none" THEN Raise(away_team.err)
                   ELSE Ok([game_pk |-> game_pk, date |-> date,
                            venue |-> venue, weather |-> weather,
                            home_team |-> home_team.val,
                            away_team |-> away_team.val], away_team.rest) :
                   away_team \in {Parser_parse_team(home_team.rest)}}) :
        home_team \in {Parser_parse_team(text)}})

\* Parser.__parse_context: the weather.
Parser_parse_context_weather(text, game_pk, date, venue) ==
  Only({IF s.err # "none" THEN Raise(s.err)
        ELSE Only({IF condition.err # "none" THEN Raise(condition.err)
          ELSE Only({IF temperature.err # "none" THEN Raise(temperature.err)
            ELSE Only({IF wind_speed.err # "none" THEN Raise(wind_speed.err)
                       ELSE Parser_parse_context_teams(
                              wind_speed.rest, game_pk, date, venue,
                              [condition |-> str(condition.val),
                               temperature |-> IntTable[temperature.val],
                               wind_speed |-> IntTable[wind_speed.val]]) :
                       wind_speed \in {Parser_match(temperature.rest, "\\d+")}}) :
            temperature \in {Parser_match(condition.rest, "\\d+")}}) :
          condition \in {Parser_match_until(s.rest, "\\d+")}}) :
        s \in {Parser_skip(text, "\\[WEATHER\\]")}})

\* Parser.__parse_context: the venue.
Parser_parse_context_venue(text, game_pk, date) ==
  Only({IF s.err # "none" THEN Raise(s.err)
        ELSE Only({IF venue.err # "none" THEN Raise(venue.err)
                   ELSE Parser_parse_context_weather(venue.rest, game_pk, date,
                                                     str(venue.val)) :
                   venue \in {Parser_match_until(s.rest, "\\[WEATHER\\]")}}) :
        s \in {Parser_skip(text, "\\[VENUE\\]")}})

\* Parser.__parse_context
Parser_parse_context(text) ==
  Only({IF s1.err # "none" THEN Raise(s1.err)
        ELSE Only({IF game_pk.err # "none" THEN Raise(game_pk.err)
          ELSE Only({IF s2.err # "none" THEN Raise(s2.err)
            ELSE Only({IF date.err # "none" THEN Raise(date.err)
                       ELSE Parser_parse_context_venue(
                              date.rest, IntTable[game_pk.val], date.val) :
                       date \in {Parser_match(s2.rest, "\\d{4}-\\d{2}-\\d{2}")}}) :
            s2 \in {Parser_skip(game_pk.rest, "\\[DATE\\]")}}) :
          game_pk \in {Parser_match(s1.rest, "\\d+")}}) :
        s1 \in {Parser_skip(text, "\\[GAME\\]")}})

\* Parser.__parse_play_contents_player
Parser_parse_play_contents_player(text, expected_position_tag) ==
  Only({IF s.err # "none" THEN Raise(s.err)
        ELSE Only({IF n.err # "none" THEN Raise(n.err)
                   ELSE Ok(str(n.val), n.rest) :
                   n \in {Parser_match_until(s.rest, "\\[")}}) :
        s \in {Parser_skip(text, expected_position_tag)}})

\* Parser.__parse_play_contents_fielders
Parser_parse_play_contents_fielders(text) ==
  Only({IF s.err # "none" THEN Raise(s.err)
        ELSE IF s.rest # <<>> /\ s.rest[1] \in BracketWords
             THEN Ok(<<>>, s.rest)
        ELSE Only({IF f.err # "none" THEN Raise(f.err)
                   ELSE Only({Ok([i \in 1..Len(fielders) |-> str(fielders[i])],
                                 f.rest) :
                              fielders \in {SelectSeq(split(f.val),
                                              LAMBDA x : strip(x) # <<>>)}}) :
                   f \in {Parser_match_until(s.rest, "\\[")}}) :
        s \in {Parser_skip(text, "\\[FIELDERS\\]")}})

\* if base_text == "home": base = 4; else: base = int(base_text)
Parser_base(base_text) ==
  IF base_text = "home" THEN 4 ELSE IntTable[base_text]

\* Parser.__parse_movement
Parser_parse_movement(text) ==
  Only({IF runner.err # "none" THEN Raise(runner.err)
        ELSE Only({IF start_base.err # "none" THEN Raise(start_base.err)
          ELSE Only({IF arrow.err # "none" THEN Raise(arrow.err)
            ELSE Only({IF end_base.err # "none" THEN Raise(end_base.err)
                       ELSE Ok(Movement(str(runner.val),
                                        Parser_base(start_base.val),
                                        Parser_base(end_base.val),
                                        end_base.rest = <<"[out]">>), <<>>) :
                       end_base \in {Parser_match(arrow.rest, "home|\\d")}}) :
            arrow \in {Parser_skip(start_base.rest, "->")}}) :
          start_base \in {Parser_match(runner.rest, "home|\\d")}}) :
        runner \in {Parser_match_until(text, "home|\\d")}})

\* movements = [self.__parse_movement(movement_text) for movement_text in
\* movements_text]: the first movement that fails ends the parse.
Parser_parse_movements_text(movements_text, rest) ==
  Only({LET failed == {i \in 1..Len(movements) : movements[i].err # "none"}
        IN IF failed # {}
           THEN Raise(movements[CHOOSE i \in failed :
                                  \A j \in failed : i <= j].err)
           ELSE Ok([i \in 1..Len(movements) |-> movements[i].val], rest) :
        movements \in {[i \in 1..Len(movements_text) |->
                          Parser_parse_movement(movements_text[i])]}})

\* Parser.__parse_play_contents_movements
Parser_parse_play_contents_movements(text) ==
  Only({IF s.err # "none" THEN Raise(s.err)
        ELSE IF s.rest # <<>> /\ s.rest[1] \in BracketWords
             THEN Ok(<<>>, s.rest)
        ELSE Only({IF m.err # "none" THEN Raise(m.err)
                   ELSE Parser_parse_movements_text(split(m.val), m.rest) :
                   m \in {Parser_match_until(s.rest, "\\[[A-Z]")}}) :
        s \in {Parser_skip(text, "\\[MOVEMENTS\\]")}})

\* Parser.__parse_play_contents_base
Parser_parse_play_contents_base(text) ==
  Only({IF s.err # "none" THEN Raise(s.err)
        ELSE Only({IF b.err # "none" THEN Raise(b.err)
                   ELSE Ok(Parser_base(b.val), b.rest) :
                   b \in {Parser_match(s.rest, "home|\\d")}}) :
        s \in {Parser_skip(text, "\\[BASE\\]")}})

\* PlayType.from_text (src/game.py) of a text: text.replace(" ", "_").upper()
PlayType_from_text_of(text) ==
  LET value == Join([i \in 1..Len(text) |->
                       IF text[i] = " " THEN "_" ELSE upper(text[i])], "")
  IN IF value \in PlayType THEN Ok(value, <<>>) ELSE Raise("PlayType")

Parser_cases_no_balk ==
  {"GROUNDOUT", "BUNT_GROUNDOUT", "LINEOUT", "BUNT_LINEOUT", "FLYOUT",
   "POP_OUT", "BUNT_POP_OUT", "FORCEOUT", "DOUBLE_PLAY", "TRIPLE_PLAY",
   "RUNNER_DOUBLE_PLAY", "RUNNER_TRIPLE_PLAY", "GROUNDED_INTO_DOUBLE_PLAY",
   "STRIKEOUT_DOUBLE_PLAY", "FIELDERS_CHOICE", "CATCHER_INTERFERENCE",
   "FIELD_ERROR",
   "STRIKEOUT", "SINGLE", "DOUBLE", "TRIPLE", "HOME_RUN", "WALK",
   "INTENT_WALK", "HIT_BY_PITCH",
   "PICKOFF", "PICKOFF_ERROR", "CAUGHT_STEALING", "PICKOFF_CAUGHT_STEALING",
   "WILD_PITCH",
   "RUNNER_OUT", "FIELD_OUT",
   "PASSED_BALL", "ERROR",
   "STOLEN_BASE",
   "SAC_FLY", "SAC_FLY_DOUBLE_PLAY", "FIELDERS_CHOICE_OUT",
   "SAC_BUNT", "SAC_BUNT_DOUBLE_PLAY",
   "GAME_ADVISORY"}

\* The play-types the cases of the match of Parser.__parse_play name; any
\* other falls to "case _".
Parser_cases ==
  {"GROUNDOUT", "BUNT_GROUNDOUT", "LINEOUT", "BUNT_LINEOUT", "FLYOUT",
   "POP_OUT", "BUNT_POP_OUT", "FORCEOUT", "DOUBLE_PLAY", "TRIPLE_PLAY",
   "RUNNER_DOUBLE_PLAY", "RUNNER_TRIPLE_PLAY", "GROUNDED_INTO_DOUBLE_PLAY",
   "STRIKEOUT_DOUBLE_PLAY", "FIELDERS_CHOICE", "CATCHER_INTERFERENCE",
   "FIELD_ERROR",
   "STRIKEOUT", "SINGLE", "DOUBLE", "TRIPLE", "HOME_RUN", "WALK",
   "INTENT_WALK", "HIT_BY_PITCH",
   "PICKOFF", "PICKOFF_ERROR", "CAUGHT_STEALING", "PICKOFF_CAUGHT_STEALING",
   "WILD_PITCH",
   "RUNNER_OUT", "FIELD_OUT",
   "BALK",
   "PASSED_BALL", "ERROR",
   "STOLEN_BASE",
   "SAC_FLY", "SAC_FLY_DOUBLE_PLAY", "FIELDERS_CHOICE_OUT",
   "SAC_BUNT", "SAC_BUNT_DOUBLE_PLAY",
   "GAME_ADVISORY"}

\* The slots of a case of Parser.__parse_play, in the order of its
\* statements, up to the movements.
RECURSIVE Parser_parse_play_slots(_, _, _)
Parser_parse_play_slots(text, markers, play_contents) ==
  IF markers = <<>> THEN Ok(play_contents, text)
  ELSE
    Only({IF r.err # "none" THEN Raise(r.err)
          ELSE Parser_parse_play_slots(
                 r.rest, Tail(markers),
                 [play_contents EXCEPT ![SlotOf(Head(markers))] = Some(r.val)]) :
          r \in {CASE Head(markers) = "[BASE]" ->
                        Parser_parse_play_contents_base(text)
                   [] Head(markers) = "[FIELDERS]" ->
                        Parser_parse_play_contents_fielders(text)
                   [] OTHER ->
                        Parser_parse_play_contents_player(
                          text, CHOOSE p \in DOMAIN Literals :
                                  Literals[p] = Head(markers))}})

\* Parser.__parse_play: the match over the play-type.
Parser_parse_play_contents(text, play_type) ==
  IF play_type \notin Parser_cases THEN Raise("unsupported")
  ELSE IF play_type = "GAME_ADVISORY"
  THEN Ok(Play(play_type, PlayContents), text)
  ELSE
    Only({IF c.err # "none" THEN Raise(c.err)
          ELSE Only({IF m.err # "none" THEN Raise(m.err)
                     ELSE Ok(Play(play_type,
                                  [c.val EXCEPT !.movements = Some(m.val)]),
                             m.rest) :
                     m \in {Parser_parse_play_contents_movements(c.rest)}}) :
          c \in {Parser_parse_play_slots(text, Schema(play_type),
                                         PlayContents)}})

\* Parser.__parse_play
Parser_parse_play(text) ==
  Only({IF s.err # "none" THEN Raise(s.err)
        ELSE Only({IF play_type_token.err # "none"
                   THEN Raise(play_type_token.err)
                   ELSE Only({IF play_type.err # "none"
                              THEN Raise(play_type.err)
                              ELSE Parser_parse_play_contents(
                                     play_type_token.rest, play_type.val) :
                              play_type \in
                                {PlayType_from_text_of(play_type_token.val)}}) :
                   play_type_token \in {Parser_match_until(s.rest, "\\[")}}) :
        s \in {Parser_skip(text, "\\[PLAY\\]")}})

\* while not text.startswith("[GAME_END]")
RECURSIVE Parser_parse_plays_loop(_, _)
Parser_parse_plays_loop(text, plays) ==
  IF text # <<>> /\ text[1] = "[GAME_END]" THEN Ok(plays, text)
  ELSE Only({IF p.err # "none" THEN Raise(p.err)
             ELSE Parser_parse_plays_loop(p.rest, Append(plays, p.val)) :
             p \in {Parser_parse_play(text)}})

\* Parser.__parse_plays
Parser_parse_plays(text) ==
  Only({IF s.err # "none" THEN Raise(s.err)
        ELSE Only({IF ps.err # "none" THEN Raise(ps.err)
                   ELSE Only({IF e.err # "none" THEN Raise(e.err)
                              ELSE Ok(ps.val, e.rest) :
                              e \in {Parser_skip(ps.rest, "\\[GAME_END\\]")}}) :
                   ps \in {Parser_parse_plays_loop(s.rest, <<>>)}}) :
        s \in {Parser_skip(text, "\\[GAME_START\\]")}})

\* Parser.parse: the Game, or the exception; text left after [GAME_END] is
\* an error.
Parser_parse(text) ==
  Only({IF c.err # "none" THEN Raise(c.err)
        ELSE Only({IF ps.err # "none" THEN Raise(ps.err)
                   ELSE IF ps.rest # <<>> THEN Raise("ValueError")
                   ELSE Ok([context |-> c.val, plays |-> ps.val], <<>>) :
                   ps \in {Parser_parse_plays(c.rest)}}) :
        c \in {Parser_parse_context(text)}})

(***************************************************************************)
(* The transcripts the parser is run on.  A transcript is described by the *)
(* kinds of its plays, the movements of each play that has a [MOVEMENTS]   *)
(* section, the tokens that follow [GAME_END] and, for a truncated         *)
(* transcript, the number of tokens kept.  In the token lists below ","    *)
(* stands for a comma of the text; the other tokens are separated by one   *)
(* space.                                                                  *)
(***************************************************************************)
\* The concatenation of a sequence of sequences.
RECURSIVE Flatten(_)
Flatten(seqs) ==
  Only({IF s = <<>> THEN <<>>
        ELSE IF Len(s) = 1 THEN s[1]
        ELSE LET h == Len(s) \div 2 IN
             Flatten(SubSeq(s, 1, h)) \o Flatten(SubSeq(s, h + 1, Len(s))) :
        s \in {seqs}})

RECURSIVE SeqsUpTo(_, _)
SeqsUpTo(S, n) ==
  IF n = 0 THEN {<<>>}
  ELSE SeqsUpTo(S, n - 1) \cup
       {Append(s, x) : s \in {t \in SeqsUpTo(S, n - 1) : Len(t) = n - 1}, x \in S}

ContextWords ==
  <<"[GAME]", "1", "[DATE]", "2023-04-10", "[VENUE]", "Test", "Park",
    "[WEATHER]", "Clear", "70", "5", "[TEAM]", "100", "[PITCHER]", "Jane",
    "Doe", "[TEAM]", "200", "[PITCHER]", "John", "Roe">>

\* The context of a transcript whose two teams have the same id.
SameIdContextWords ==
  <<"[GAME]", "1", "[DATE]", "2023-04-10", "[VENUE]", "Test", "Park",
    "[WEATHER]", "Clear", "70", "5", "[TEAM]", "100", "[PITCHER]", "Jane",
    "Doe", "[TEAM]", "100", "[PITCHER]", "John", "Roe">>

\* A movement from home to home, one that ends in an out, and one between
\* bases that are no base of the game.
MovementWords(m) ==
  IF m = "home" THEN <<"John", "Roe", "home", "->", "home">>
  ELSE IF m = "far" THEN <<"Doe", "0", "->", "5">>
  ELSE <<"Doe", "1", "->", "2", "[out]">>

MovementKinds == {"home", "out"}

RECURSIVE MovementsWords(_)
MovementsWords(moves) ==
  IF moves = <<>> THEN <<>>
  ELSE IF Len(moves) = 1 THEN MovementWords(moves[1])
  ELSE MovementWords(moves[1]) \o <<",">> \o MovementsWords(Tail(moves))

FieldWords(marker, base_token) ==
  CASE marker = "[BATTER]" -> <<"[BATTER]", "John", "Roe">>
    [] marker = "[PITCHER]" -> <<"[PITCHER]", "Jane", "Doe">>
    [] marker = "[FIELDERS]" -> <<"[FIELDERS]", "Doe">>
    [] marker = "[CATCHER]" -> <<"[CATCHER]", "Roe">>
    [] marker = "[RUNNER]" -> <<"[RUNNER]", "John", "Roe">>
    [] marker = "[SCORING_RUNNER]" -> <<"[SCORING_RUNNER]", "Jane", "Doe">>
    [] OTHER -> <<"[BASE]", base_token>>

\* A play section: [PLAY], the play-type text, the fields, then [MOVEMENTS]
\* and the movements (none of both for a section without the marker).
Section(type_words, markers, base_token, has_movements, moves) ==
  <<"[PLAY]">> \o type_words
  \o Flatten([i \in 1..Len(markers) |-> FieldWords(markers[i], base_token)])
  \o (IF has_movements THEN <<"[MOVEMENTS]">> \o MovementsWords(moves)
      ELSE <<>>)

\* The kinds of play that conform to the grammar: each member of PlayType
\* spelled as its name, and some in another letter case or with spaces.
SpelledKinds == {"Strikeout", "Game Advisory", "Pickoff 2", "home run"}
\* Plays with a [FIELDERS] slot of no name and of two names.
FielderKinds == {"Groundout no fielders", "Groundout two fielders"}
ConformingKinds == PlayType \cup SpelledKinds \cup FielderKinds
\* The other kinds: a text that names no play-type, a field marker that is
\* not in the play-type's schema, a section without its [MOVEMENTS] marker.
OtherKinds == {"Foo Bar", "Strikeout [CATCHER]", "Strikeout no [MOVEMENTS]"}
CoreKinds == SpelledKinds \cup OtherKinds
\* A [BASE] value that is no base of the game.
ExtraKinds == FielderKinds \cup {"Pickoff 5"}

\* The play-type a kind of play spells (a kind outside the enumeration
\* spells none).
KindType(kind) ==
  CASE kind \in PlayType -> kind
    [] kind \in {"Strikeout", "Strikeout [CATCHER]",
                 "Strikeout no [MOVEMENTS]"} -> "STRIKEOUT"
    [] kind = "Game Advisory" -> "GAME_ADVISORY"
    [] kind \in {"Pickoff 2", "Pickoff 5"} -> "PICKOFF"
    [] kind = "home run" -> "HOME_RUN"
    [] kind \in FielderKinds -> "GROUNDOUT"
    [] OTHER -> "FOO_BAR"

KindTypeWords(kind) ==
  CASE kind \in PlayType -> <<kind>>
    [] kind \in {"Strikeout", "Strikeout [CATCHER]",
                 "Strikeout no [MOVEMENTS]"} -> <<"Strikeout">>
    [] kind = "Game Advisory" -> <<"Game", "Advisory">>
    [] kind \in {"Pickoff 2", "Pickoff 5"} -> <<"Pickoff">>
    [] kind = "home run" -> <<"home", "run">>
    [] kind \in FielderKinds -> <<"Groundout">>
    [] OTHER -> <<"Foo", "Bar">>

KindMarkers(kind) ==
  CASE kind = "Strikeout [CATCHER]" -> <<"[CATCHER]">>
    [] kind = "Strikeout no [MOVEMENTS]" -> <<"[BATTER]">>
    [] kind = "Foo Bar" -> <<"[BATTER]", "[PITCHER]">>
    [] OTHER -> Schema(KindType(kind))

KindHasMovements(kind) ==
  kind \notin {"Strikeout no [MOVEMENTS]", "Game Advisory", "GAME_ADVISORY"}

KindWords(kind, moves) ==
  CASE kind = "Groundout no fielders" ->
         <<"[PLAY]", "Groundout", "[BATTER]", "John", "Roe", "[PITCHER]",
           "Jane", "Doe", "[FIELDERS]", "[MOVEMENTS]">> \o MovementsWords(moves)
    [] kind = "Groundout two fielders" ->
         <<"[PLAY]", "Groundout", "[BATTER]", "John", "Roe", "[PITCHER]",
           "Jane", "Doe", "[FIELDERS]", "Doe", ",", "John", "Roe",
           "[MOVEMENTS]">> \o MovementsWords(moves)
    [] OTHER ->
         Section(KindTypeWords(kind), KindMarkers(kind),
                 CASE kind = "Pickoff 2" -> "2"
                   [] kind = "Pickoff 5" -> "5"
                   [] OTHER -> "home",
                 KindHasMovements(kind), moves)

\* The tokens of the whole transcript, before any truncation.
DocWords(d) ==
  (IF d.ctx = "same id" THEN SameIdContextWords ELSE ContextWords)
  \o <<"[GAME_START]">>
  \o Flatten([i \in 1..Len(d.plays) |-> KindWords(d.plays[i], d.moves)])
  \o <<"[GAME_END]">> \o d.tail

\* The text of a token list: a comma is written after the token before it,
\* every other token but the first after one space.
Render(words) ==
  Only({Flatten([i \in 1..Len(w) |->
                   IF w[i] = "," \/ i = 1 THEN <<w[i]>> ELSE <<" ", w[i]>>]) :
        w \in {words}})

\* The text handed to the parser: the transcript, or its first d.cut tokens,
\* between the separators d.lead and d.trail.
DocText(d) ==
  d.lead
  \o (IF d.cut < 0 THEN Render(DocWords(d))
      ELSE Render(SubSeq(re_split(Render(DocWords(d))), 1, d.cut)))
  \o d.trail

WellFormed(d) ==
  /\ \A i \in 1..Len(d.plays) : d.plays[i] \in ConformingKinds
  /\ d.moves \in Seq(MovementKinds)
  /\ d.ctx = "scenario"
  /\ d.tail = <<>>
  /\ d.cut < 0
  /\ d.lead = <<>>
  /\ d.trail = <<>>

Tails == {<<"extra">>, <<"[PLAY]", "Strikeout", "[BATTER]", "John", "Roe",
                         "[PITCHER]", "Jane", "Doe", "[MOVEMENTS]">>}

Doc(plays, moves, tail, cut) ==
  [plays |-> plays, moves |-> moves, tail |-> tail, cut |-> cut,
   ctx |-> "scenario", lead |-> <<>>, trail |-> <<>>]

\* Whole transcripts, well-formed or not.
WholeDocs ==
  {Doc(p, m, <<>>, -1) : p \in SeqsUpTo(CoreKinds, MaxPlays),
                          m \in SeqsUpTo(MovementKinds, MaxMoves)}
  \cup {Doc(<<k>>, m, <<>>, -1) : k \in PlayType \cup ExtraKinds,
                                   m \in SeqsUpTo(MovementKinds, 1)}
  \cup {Doc(<<"Strikeout">>, <<"far">>, <<>>, -1),
        [Doc(<<"Strikeout">>, <<>>, <<>>, -1) EXCEPT !.ctx = "same id"]}

\* Well-formed transcripts followed by further tokens.
TrailingDocs ==
  {Doc(p, m, t, -1) : p \in SeqsUpTo(SpelledKinds, MaxPlays),
                       m \in SeqsUpTo(MovementKinds, 1), t \in Tails}

\* Well-formed transcripts cut before their final [GAME_END] token.
TruncatedDocs ==
  UNION {{[d EXCEPT !.cut = k] : k \in 0..(Len(re_split(DocText(d))) - 1)} :
         d \in {Doc(p, m, <<>>, -1) :
                  p \in SeqsUpTo({"Strikeout", "Game Advisory", "Pickoff 2"},
                                 MaxPlays),
                  m \in SeqsUpTo(MovementKinds, 1)}}

\* Transcripts whose text begins or ends with whitespace or a comma.
Pads == {<<>>, <<" ">>, <<",">>, <<" ", " ">>}
PaddedDocs ==
  {[Doc(p, <<>>, <<>>, -1) EXCEPT !.lead = l, !.trail = t] :
     p \in {<<>>, <<"Strikeout">>}, l \in Pads, t \in Pads}

Docs == WholeDocs \cup TrailingDocs \cup TruncatedDocs \cup PaddedDocs

(***************************************************************************)
(* The state of a run of parse_game.                                       *)
(***************************************************************************)
VARIABLES
  doc,        \* the transcript whose text is parsed
  parsed,     \* what Parser.parse made of the text (<<>> until it has run)
  run,        \* the number of the parse under way, from 1
  first,      \* what the first parse ended in (<<>> until it has ended)
  pc,         \* where the parse stands
  tokens,     \* the token list, popped from the front
  outcome,    \* "running", "ok" (a Game is returned) or the exception raised
  error,      \* what raised the exception ("" when none was raised)
  context,    \* Game.context, once built
  plays,      \* the list plays of Game.from_tokens
  play_type,  \* the play-type of the play being built
  contents,   \* the PlayContents being built
  movements,  \* the list movements of PlayContents.from_tokens
  paths,      \* the files of a batch, each the transcript it holds
  index,      \* the number of files of the batch gone through
  returned,   \* what test_parse returned for each file gone through
  printed,    \* the lines printed by the batch, in order
  stopped,    \* the batch has ended
  scores,     \* the scores dict of runs_at_end (<<>> until it is made)
  turn        \* the number of plays runs_at_end has gone through

\* The state of a parse and the state of a batch.
parse ==
  <<doc, parsed, run, first, pc, tokens, outcome, error, context, plays,
    play_type, contents, movements>>
batch == <<paths, index, returned, printed, stopped>>
analyse == <<scores, turn>>
vars == <<parse, batch, analyse>>

\* The locals of a parse before its first statement.
Fresh ==
  /\ tokens = <<>>
  /\ outcome = "running"
  /\ error = ""
  /\ context = None
  /\ plays = <<>>
  /\ play_type = ""
  /\ contents = PlayContents
  /\ movements = <<>>

Init ==
  /\ doc \in Docs
  /\ parsed = <<>>
  /\ run = 1
  /\ first = <<>>
  /\ pc = "test_parse"
  /\ Fresh
  /\ paths = <<>>
  /\ index = 0
  /\ returned = <<>>
  /\ printed = <<>>
  /\ stopped = FALSE
  /\ scores = <<>>
  /\ turn = 0

\* test_parse (src/interpret/parse_game.py): the text of the file goes
\* through Parser.parse, and an exception is caught.
test_parse ==
  /\ pc = "test_parse"
  /\ parsed' = Parser_parse(DocText(doc))
  /\ pc' = "parse_game"
  /\ UNCHANGED <<analyse, batch, doc, run, first, tokens, outcome, error,
                 context, plays, play_type, contents, movements>>

\* An exception leaves the parse: no Game is returned.
Fail(e) ==
  /\ pc' = "done"
  /\ outcome' = ExceptionClass(e)
  /\ error' = e
  /\ UNCHANGED <<analyse, batch, doc, parsed, run, first, tokens, context,
                 plays, play_type, contents, movements>>

parse_game_stale ==
  /\ pc = "parse_game"
  /\ tokens' = tokens \o re_split(DocText(doc))
  /\ pc' = "context"
  /\ UNCHANGED <<analyse, batch, doc, parsed, run, first, error, outcome,
                 context, plays, play_type, contents, movements>>

\* parse_game: tokens = re.split(r"[\s,]+", text)
parse_game ==
  /\ pc = "parse_game"
  /\ tokens' = re_split(DocText(doc))
  /\ pc' = "context"
  /\ UNCHANGED <<analyse, batch, doc, parsed, run, first, error, outcome,
                 context, plays, play_type, contents, movements>>

\* Game.from_tokens: context = GameContext.from_tokens(tokens)
Game_context ==
  /\ pc = "context"
  /\ LET r == GameContext_from_tokens(tokens) IN
     IF r.err # "none" THEN Fail(r.err)
     ELSE /\ context' = r.val
          /\ tokens' = r.rest
          /\ pc' = "game_start"
          /\ UNCHANGED <<analyse, batch, doc, parsed, run, first, error,
                         outcome, plays, play_type, contents, movements>>

\* Game.from_tokens: the [GAME_START] token.
Game_game_start ==
  /\ pc = "game_start"
  /\ IF tokens = <<>> THEN Fail("IndexError")
     ELSE IF Head(tokens) # "[GAME_START]" THEN Fail("ValueError")
     ELSE /\ tokens' = Tail(tokens)
          /\ pc' = "plays"
          /\ UNCHANGED <<analyse, batch, doc, parsed, run, first, error,
                         outcome, context, plays, play_type, contents,
                         movements>>

\* Game.from_tokens: the plays loop ends on [GAME_END], which stays in the
\* list, and Game(context, plays) is returned.
Game_return ==
  /\ pc = "plays"
  /\ tokens # <<>>
  /\ Head(tokens) = "[GAME_END]"
  /\ pc' = "done"
  /\ outcome' = "ok"
  /\ UNCHANGED <<analyse, batch, doc, parsed, run, first, error, tokens,
                 context, plays, play_type, contents, movements>>

\* One turn of the plays loop: Play.from_tokens up to its contents.  A
\* GAME_ADVISORY play gets an empty PlayContents and is appended at once.
Play_from_tokens ==
  /\ pc = "plays"
  /\ IF tokens = <<>> THEN Fail("IndexError")
     ELSE /\ Head(tokens) # "[GAME_END]"
          /\ LET r == Play_type(tokens) IN
             IF r.err # "none" THEN Fail(r.err)
             ELSE IF r.val = "GAME_ADVISORY"
             THEN /\ plays' = Append(plays, Play(r.val, PlayContents))
                  /\ tokens' = r.rest
                  /\ UNCHANGED <<analyse, batch, doc, parsed, run, first,
                                 error, pc, outcome, context, play_type,
                                 contents, movements>>
             ELSE /\ play_type' = r.val
                  /\ tokens' = r.rest
                  /\ pc' = "contents"
                  /\ UNCHANGED <<analyse, batch, doc, parsed, run, first,
                                 error, outcome, context, plays, contents,
                                 movements>>

\* PlayContents.from_tokens up to movements = [].
PlayContents_slots ==
  /\ pc = "contents"
  /\ LET r == PlayContents_from_tokens(tokens) IN
     IF r.err # "none" THEN Fail(r.err)
     ELSE /\ contents' = r.val
          /\ movements' = <<>>
          /\ tokens' = r.rest
          /\ pc' = "movements"
          /\ UNCHANGED <<analyse, batch, doc, parsed, run, first, error,
                         outcome, context, plays, play_type>>

PlayContents_movement_stays ==
  /\ pc = "movements"
  /\ IF tokens = <<>> THEN Fail("IndexError")
     ELSE /\ Head(tokens) \notin {"[PLAY]", "[GAME_END]"}
          /\ LET r == Movement_from_tokens(tokens) IN
             IF r.err # "none" THEN Fail(r.err)
             ELSE /\ movements' = Append(movements, r.val)
                  /\ UNCHANGED <<analyse, batch, doc, parsed, run, first,
                                 error, pc, tokens, outcome, context, plays,
                                 play_type, contents>>

PlayContents_movement_prepends ==
  /\ pc = "movements"
  /\ IF tokens = <<>> THEN Fail("IndexError")
     ELSE /\ Head(tokens) \notin {"[PLAY]", "[GAME_END]"}
          /\ LET r == Movement_from_tokens(tokens) IN
             IF r.err # "none" THEN Fail(r.err)
             ELSE /\ movements' = <<r.val>> \o movements
                  /\ tokens' = r.rest
                  /\ UNCHANGED <<analyse, batch, doc, parsed, run, first,
                                 error, pc, outcome, context, plays,
                                 play_type, contents>>

\* One turn of the movements loop.
PlayContents_movement ==
  /\ pc = "movements"
  /\ IF tokens = <<>> THEN Fail("IndexError")
     ELSE /\ Head(tokens) \notin {"[PLAY]", "[GAME_END]"}
          /\ LET r == Movement_from_tokens(tokens) IN
             IF r.err # "none" THEN Fail(r.err)
             ELSE /\ movements' = Append(movements, r.val)
                  /\ tokens' = r.rest
                  /\ UNCHANGED <<analyse, batch, doc, parsed, run, first,
                                 error, pc, outcome, context, plays,
                                 play_type, contents>>

PlayContents_return_absent ==
  /\ pc = "movements"
  /\ tokens # <<>>
  /\ Head(tokens) \in {"[PLAY]", "[GAME_END]"}
  /\ plays' = Append(plays, Play(play_type,
                                 IF movements = <<>> THEN contents
                                 ELSE [contents EXCEPT
                                         !.movements = Some(movements)]))
  /\ pc' = "plays"
  /\ UNCHANGED <<analyse, batch, doc, parsed, run, first, error, tokens,
                 outcome, context, play_type, contents, movements>>

\* The movements loop ends; PlayContents.from_tokens and Play.from_tokens
\* return and the play is appended to plays.
PlayContents_return ==
  /\ pc = "movements"
  /\ tokens # <<>>
  /\ Head(tokens) \in {"[PLAY]", "[GAME_END]"}
  /\ plays' = Append(plays, Play(play_type,
                                 [contents EXCEPT !.movements = Some(movements)]))
  /\ pc' = "plays"
  /\ UNCHANGED <<analyse, batch, doc, parsed, run, first, error, tokens,
                 outcome, context, play_type, contents, movements>>

\* What a parse ended in: the Game returned, or the exception.
Result ==
  [outcome |-> outcome,
   context |-> IF outcome = "ok" THEN Some(context) ELSE None,
   plays |-> IF outcome = "ok" THEN plays ELSE <<>>]

\* The same text is parsed again: parse_game is called anew, and its locals
\* are those of a new call.
Reparse ==
  /\ pc = "done"
  /\ run < MaxRuns
  /\ run' = run + 1
  /\ first' = IF run = 1 THEN Result ELSE first
  /\ pc' = "parse_game"
  /\ outcome' = "running"
  /\ error' = ""
  /\ context' = None
  /\ plays' = <<>>
  /\ play_type' = ""
  /\ contents' = PlayContents
  /\ movements' = <<>>
  /\ UNCHANGED <<analyse, batch, doc, parsed, tokens>>

Next ==
  \/ test_parse
  \/ parse_game
  \/ Game_context
  \/ Game_game_start
  \/ Game_return
  \/ Play_from_tokens
  \/ PlayContents_slots
  \/ PlayContents_movement
  \/ PlayContents_return
  \/ Reparse

Spec == Init /\ [][Next]_vars

\* The steps of a call of parse_game.
parse_game_steps ==
  \/ parse_game
  \/ Game_context
  \/ Game_game_start
  \/ Game_return
  \/ Play_from_tokens
  \/ PlayContents_slots
  \/ PlayContents_movement
  \/ PlayContents_return

\* One call of parse_game on a text.
TermInit ==
  /\ doc \in Docs
  /\ parsed = <<>>
  /\ run = 1
  /\ first = <<>>
  /\ pc = "parse_game"
  /\ Fresh
  /\ paths = <<>>
  /\ index = 0
  /\ returned = <<>>
  /\ printed = <<>>
  /\ stopped = FALSE
  /\ scores = <<>>
  /\ turn = 0

\* The interpreter runs a call on: a call of parse_game that has a next
\* step takes it.
TermSpec == TermInit /\ [][parse_game_steps]_vars /\ WF_vars(parse_game_steps)

(***************************************************************************)
(* The batch of src/interpret/parse_game.py: __main__ with the argument    *)
(* "all" calls test_parse on every file that glob found.                   *)
(***************************************************************************)
MaxFiles == 3

\* The files a batch is made of: two that Parser.parse accepts and three it
\* rejects (an unknown play-type, text after [GAME_END], a truncated text).
Files ==
  {Doc(<<"Strikeout">>, <<"home">>, <<>>, -1),
   Doc(<<"Game Advisory", "Pickoff 2">>, <<>>, <<>>, -1),
   Doc(<<"Foo Bar">>, <<>>, <<>>, -1),
   Doc(<<>>, <<>>, <<"extra">>, -1),
   Doc(<<"Strikeout">>, <<>>, <<>>, 25)}

BatchInit ==
  /\ paths \in SeqsUpTo(Files, MaxFiles)
  /\ index = 0
  /\ returned = <<>>
  /\ printed = <<>>
  /\ stopped = FALSE
  /\ scores = <<>>
  /\ turn = 0
  /\ doc = Doc(<<>>, <<>>, <<>>, -1)
  /\ parsed = <<>>
  /\ run = 1
  /\ first = <<>>
  /\ pc = "main"
  /\ Fresh

main_all_aborts ==
  /\ ~stopped
  /\ index < Len(paths)
  /\ LET r == Parser_parse(DocText(paths[index + 1])) IN
     IF r.err = "none"
     THEN /\ index' = index + 1
          /\ returned' = Append(returned, TRUE)
          /\ UNCHANGED <<printed, stopped>>
     ELSE /\ stopped' = TRUE
          /\ UNCHANGED <<index, returned, printed>>
  /\ UNCHANGED <<paths, parse, analyse>>

\* One turn of "for path in tqdm(paths): test_parse(parser, path)": the
\* file is parsed; an exception is caught and printed with the path, and
\* test_parse returns whether there was none.
main_all ==
  /\ ~stopped
  /\ index < Len(paths)
  /\ LET r == Parser_parse(DocText(paths[index + 1])) IN
     /\ index' = index + 1
     /\ returned' = Append(returned, r.err = "none")
     /\ printed' = IF r.err = "none" THEN printed
                   ELSE Append(printed, [path |-> index + 1, e |-> r.err])
  /\ UNCHANGED <<paths, stopped, parse, analyse>>

\* The loop has gone through the files and the program ends.
main_exit ==
  /\ ~stopped
  /\ index = Len(paths)
  /\ stopped' = TRUE
  /\ UNCHANGED <<paths, index, returned, printed, parse, analyse>>

BatchNext == main_all \/ main_exit

BatchSpec == BatchInit /\ [][BatchNext]_vars

(***************************************************************************)
(* Properties.                                                             *)
(***************************************************************************)
\* The place of the "->" the runner-name loop of a movement stops before: the
\* first one from the second token on.  The start base is the token before
\* it, the end base the token after it.
ArrowAt(toks) ==
  CHOOSE j \in 2..Len(toks) :
    toks[j] = "->" /\ \A i \in 2..(j - 1) : toks[i] # "->"

\* A turn of the movements loop that built a Movement.
MovementBuilt == pc = "movements" /\ Len(movements') = Len(movements) + 1

\* The number of [PLAY] sections of the game parsed: the [PLAY] tokens of the
\* text before its first [GAME_END].
PlaySections ==
  LET toks == re_split(DocText(doc))
      ends == {i \in 1..Len(toks) : toks[i] = "[GAME_END]"}
  IN Cardinality({i \in 1..Len(toks) :
                    toks[i] = "[PLAY]" /\ \A e \in ends : i < e})

\* C1: every transcript that conforms to the grammar (context, two teams,
\* [GAME_START], plays of any enumerated play-type, GAME_ADVISORY included,
\* [GAME_END]) is parsed to a Game, and no exception is raised.
C1_WellFormedParses == (WellFormed(doc) /\ pc = "done") => outcome = "ok"

\* C2: in a Game that is returned, the slots populated in each play are
\* exactly the slots of the schema of its play-type, whatever field markers
\* the text holds.
C2_SlotsFollowSchema ==
  outcome = "ok" =>
    \A i \in 1..Len(plays) :
      PopulatedSlots(plays[i].contents) = SchemaSlots(plays[i].play_type)

\* C3: a Movement is out if and only if the token right after its end-base
\* token is [out]; the [out] token is then consumed with the movement, and
\* otherwise the movement ends with its end-base token.
C3_OutIffMarkerFollows ==
  [][MovementBuilt =>
       LET e == ArrowAt(tokens) + 1
           m == movements'[Len(movements')]
           marked == e < Len(tokens) /\ tokens[e + 1] = "[out]"
       IN /\ m.is_out <=> marked
          /\ tokens' = SubSeq(tokens, IF marked THEN e + 2 ELSE e + 1,
                              Len(tokens))]_vars

\* C3 witness: a play whose first movement has no [out] after its end base
\* and whose second has one, both built.
C3_Witness ==
  /\ pc = "movements"
  /\ doc.moves = <<"home", "out">>
  /\ Len(movements) = 2
  /\ ~movements[1].is_out
  /\ movements[2].is_out
  /\ Head(tokens) \in {"[PLAY]", "[GAME_END]"}

\* The base tokens of the grammar and the base each stands for.
BaseTokens == {"home", "1", "2", "3"}
BaseOfToken(tok) ==
  CASE tok = "home" -> 4
    [] tok = "1" -> 1
    [] tok = "2" -> 2
    [] OTHER -> 3

\* The tokens before the first [MOVEMENTS] token.
BeforeMovements(toks) ==
  LET stop == CHOOSE j \in 1..Len(toks) :
                toks[j] = "[MOVEMENTS]"
                /\ \A i \in 1..(j - 1) : toks[i] # "[MOVEMENTS]"
  IN SubSeq(toks, 1, stop - 1)

\* C4: the token home is base 4 as the start base and as the end base of a
\* movement and as the value after [BASE]; any other base token is its
\* number.
C4_HomeIsBaseFour ==
  [][/\ (/\ pc = "movements"
         /\ tokens # <<>>
         /\ Head(tokens) \notin {"[PLAY]", "[GAME_END]"}
         /\ \E j \in 2..(Len(tokens) - 2) : tokens[j] = "->"
         /\ tokens[ArrowAt(tokens) - 1] \in BaseTokens
         /\ tokens[ArrowAt(tokens) + 1] \in BaseTokens) =>
          LET a == ArrowAt(tokens)
              m == movements'[Len(movements')]
          IN /\ MovementBuilt
             /\ m.start_base = BaseOfToken(tokens[a - 1])
             /\ m.end_base = BaseOfToken(tokens[a + 1])
     /\ (/\ pc = "contents"
         /\ \E j \in 1..Len(tokens) : tokens[j] = "[MOVEMENTS]") =>
          LET ctx == BeforeMovements(tokens)
              at == {i \in 1..Len(ctx) : ctx[i] = "[BASE]"}
          IN /\ (at = {} /\ pc' = "movements") => contents'.base = None
             /\ \A i \in at :
                  (/\ Cardinality(at) = 1
                   /\ i < Len(ctx)
                   /\ ctx[i + 1] \in BaseTokens) =>
                    /\ pc' = "movements"
                    /\ contents'.base = Some(BaseOfToken(ctx[i + 1]))]_vars

\* C4 witness: a PICKOFF play with [BASE] home and a movement from home to
\* home, parsed.
C4_Witness ==
  /\ pc = "movements"
  /\ play_type = "PICKOFF"
  /\ doc.moves = <<"home">>
  /\ contents.base = Some(4)
  /\ Len(movements) = 1
  /\ movements[1].start_base = 4
  /\ movements[1].end_base = 4

C6_TruncatedIsEndOfStream ==
  (doc.cut >= 0 /\ pc = "done") => outcome = "IndexError"

\* C7: a token after the [GAME_END] of a well-formed transcript makes the
\* parse fail.
C7_TrailingTokensRejected ==
  (doc.tail # <<>> /\ pc = "done") => outcome \in {"IndexError", "ValueError"}

\* The text between [PLAY] and the token that ends the play-type text, upper-
\* cased and with "_" for the spaces between its words.
PlayTypeTextStop(toks) ==
  CHOOSE j \in 2..Len(toks) :
    /\ toks[j] \in ALL_PLAY_CONTENT_TOKENS \cup {"[GAME_END]"}
    /\ \A i \in 2..(j - 1) :
         toks[i] \notin ALL_PLAY_CONTENT_TOKENS \cup {"[GAME_END]"}
PlayTypeName(toks) ==
  LET words == SubSeq(toks, 2, PlayTypeTextStop(toks) - 1) IN
  Join([i \in 1..Len(words) |-> upper(words[i])], "_")

\* C8: when the play-type text names no member of the enumeration the parse
\* fails with ValueError and returns no Game; when it names one, in any
\* letter case, the play gets that play-type.
C8_UnknownPlayTypeFails ==
  [][(/\ pc = "plays"
      /\ tokens # <<>>
      /\ Head(tokens) = "[PLAY]"
      /\ \E j \in 2..Len(tokens) :
           tokens[j] \in ALL_PLAY_CONTENT_TOKENS \cup {"[GAME_END]"}) =>
       LET name == PlayTypeName(tokens) IN
       IF name \notin PlayType
       THEN pc' = "done" /\ outcome' = "ValueError"
       ELSE /\ outcome' = "running"
            /\ IF name = "GAME_ADVISORY"
               THEN /\ Len(plays') = Len(plays) + 1
                    /\ plays'[Len(plays')].play_type = name
               ELSE pc' = "contents" /\ play_type' = name]_vars

\* C8 witness: the text Strikeout gave the first play the type STRIKEOUT, and
\* the text Foo Bar of the second play made the parse fail.
C8_Witness ==
  /\ doc.plays = <<"Strikeout", "Foo Bar">>
  /\ pc = "done"
  /\ outcome = "ValueError"
  /\ Len(plays) = 1
  /\ plays[1].play_type = "STRIKEOUT"

\* C9: a GAME_ADVISORY play takes only its [PLAY] and play-type tokens and
\* has empty contents; the plays after it are parsed as plays of their own.
C9_AdvisoryThenPlays ==
  (/\ WellFormed(doc)
   /\ pc = "done"
   /\ \E i \in 1..Len(doc.plays) : KindType(doc.plays[i]) = "GAME_ADVISORY") =>
    /\ outcome = "ok"
    /\ Len(plays) = Len(doc.plays)
    /\ \A i \in 1..Len(plays) :
         /\ plays[i].play_type = KindType(doc.plays[i])
         /\ plays[i].play_type = "GAME_ADVISORY" =>
              plays[i].contents = PlayContents

\* C10: a Game that is returned holds one Play per [PLAY] section of the
\* text, in the order of the sections.
C10_OnePlayPerSection ==
  outcome = "ok" =>
    /\ Len(plays) = PlaySections
    /\ \A i \in 1..Len(plays) :
         i <= Len(doc.plays) => plays[i].play_type = KindType(doc.plays[i])

\* C11 as stated: in a Game that is returned every play, of whatever
\* play-type, has a movements list, possibly empty, and never None.
C11_MovementsNeverAbsent ==
  outcome = "ok" =>
    \A i \in 1..Len(plays) : plays[i].contents.movements # None

\* C11 as amended: in a Game that is returned every play of another type
\* than GAME_ADVISORY has a movements list, possibly empty, with one Movement
\* record per entry; the movements of a GAME_ADVISORY play are None.
C11_MovementsAbsentOnlyForAdvisory ==
  outcome = "ok" =>
    \A i \in 1..Len(plays) :
      IF plays[i].play_type = "GAME_ADVISORY"
      THEN plays[i].contents.movements = None
      ELSE /\ Len(plays[i].contents.movements) = 1
           /\ \A j \in 1..Len(plays[i].contents.movements[1]) :
                DOMAIN plays[i].contents.movements[1][j] =
                  {"runner", "start_base", "end_base", "is_out"}

\* C11 witness: a Game returned with a STRIKEOUT play whose movements list is
\* empty and a GAME_ADVISORY play whose movements are None.
C11_Witness ==
  /\ outcome = "ok"
  /\ Len(plays) = 2
  /\ plays[1].play_type = "STRIKEOUT"
  /\ plays[1].contents.movements = Some(<<>>)
  /\ plays[2].play_type = "GAME_ADVISORY"
  /\ plays[2].contents.movements = None

\* C12: the lexer yields no empty token, whatever the text begins or ends
\* with: the tokens are the maximal separator-free stretches of the text, one
\* token per stretch.
C12_NoEmptyToken ==
  pc = "context" =>
    LET text == DocText(doc) IN
    /\ \A i \in 1..Len(tokens) : tokens[i] # ""
    /\ Len(tokens) =
         Cardinality({i \in 1..Len(text) :
                        /\ text[i] \notin Separators
                        /\ (i = 1 \/ text[i - 1] \in Separators)})

\* C13: in a Game that is returned every base that is not None (the base of
\* a play, the start base and the end base of a movement) is between 1 and 4.
C13_BasesOneToFour ==
  outcome = "ok" =>
    \A i \in 1..Len(plays) :
      LET c == plays[i].contents IN
      /\ c.base # None => c.base[1] \in 1..4
      /\ c.movements # None =>
           \A j \in 1..Len(c.movements[1]) :
             /\ c.movements[1][j].start_base \in 1..4
             /\ c.movements[1][j].end_base \in 1..4

\* The ids of the [TEAM] sections of the text, in the order of the sections.
TeamIds ==
  LET toks == re_split(DocText(doc))
      at == SelectSeq([i \in 1..(Len(toks) - 1) |-> i],
                      LAMBDA i : toks[i] = "[TEAM]")
  IN [k \in 1..Len(at) |-> IntTable[toks[at[k] + 1]]]

\* C14: in a Game that is returned the home team is the first [TEAM] section
\* of the text and the away team the second, and their ids differ.
C14_TeamIdsDiffer ==
  outcome = "ok" =>
    /\ context.home_team.id = TeamIds[1]
    /\ context.away_team.id = TeamIds[2]
    /\ context.home_team.id # context.away_team.id

\* C15: every failure of a parse reports the expected token, the token found
\* and its position in the token stream.
C15_FailureReportsAll ==
  (pc = "done" /\ outcome # "ok") =>
    {"expected", "found", "position"} \subseteq Message(error)

(***************************************************************************)
(* runs_at_end (src/interpret/analyse.py), run on a Game.                  *)
(***************************************************************************)
\* The Games runs_at_end is run on: the home team is team 100 and the away
\* team is team 200 or, as parse_game lets it be, team 100 too; John Roe
\* plays for the away team and, in some Games, for the home team as well;
\* Doe plays for neither.
AnalyseTeam(id, names) ==
  [id |-> id,
   players |-> [i \in 1..Len(names) |-> [name |-> names[i],
                                          position |-> "PITCHER"]]]

AnalyseContexts ==
  {[game_pk |-> 1, date |-> "2023-04-10", venue |-> "Test Park",
    weather |-> [condition |-> "Clear", temperature |-> 70, wind_speed |-> 5],
    home_team |-> AnalyseTeam(100, home), away_team |-> AnalyseTeam(id, away)] :
     home \in {<<"Jane Doe">>, <<"Jane Doe", "John Roe">>},
     away \in {<<"John Roe">>}, id \in {200, 100}}

AnalyseMovements ==
  {Movement("Jane Doe", 3, 4, FALSE), Movement("John Roe", 3, 4, FALSE),
   Movement("Doe", 3, 4, FALSE), Movement("Jane Doe", 4, 4, FALSE),
   Movement("John Roe", 3, 4, TRUE), Movement("John Roe", 1, 2, FALSE)}

AnalysePlays ==
  {Play(t, [PlayContents EXCEPT !.movements = Some(m)]) :
     t \in {"HOME_RUN", "SINGLE"}, m \in SeqsUpTo(AnalyseMovements, MaxMoves)}
  \cup {Play("GAME_ADVISORY", PlayContents)}

AnalyseInit ==
  /\ context \in AnalyseContexts
  /\ plays \in SeqsUpTo(AnalysePlays, MaxPlays)
  /\ pc = "runs_at_end"
  /\ scores = <<>>
  /\ turn = 0
  /\ doc = Doc(<<>>, <<>>, <<>>, -1)
  /\ parsed = <<>>
  /\ run = 1
  /\ first = <<>>
  /\ tokens = <<"[GAME_END]">>
  /\ outcome = "ok"
  /\ error = ""
  /\ play_type = ""
  /\ contents = PlayContents
  /\ movements = <<>>
  /\ paths = <<>>
  /\ index = 0
  /\ returned = <<>>
  /\ printed = <<>>
  /\ stopped = FALSE

\* [player.name for player in game.context.home_team.players]
home_team_player_names ==
  {context.home_team.players[i].name :
     i \in 1..Len(context.home_team.players)}

away_team_player_names ==
  {context.away_team.players[i].name :
     i \in 1..Len(context.away_team.players)}

\* for movement in play.contents.movements: ...
RECURSIVE runs_at_end_movements(_, _, _)
runs_at_end_movements(ms, type, s) ==
  IF ms = <<>> THEN s
  ELSE
    runs_at_end_movements(
      Tail(ms), type,
      IF Head(ms).end_base = 4 /\ ~Head(ms).is_out
      THEN IF Head(ms).start_base = 4 /\ type # "HOME_RUN" THEN s
           ELSE IF Head(ms).runner \in home_team_player_names
                THEN [s EXCEPT ![context.home_team.id] = @ + 1]
           ELSE IF Head(ms).runner \in away_team_player_names
                THEN [s EXCEPT ![context.away_team.id] = @ + 1]
           ELSE s
      ELSE s)

\* scores = {game.context.home_team.id: 0, game.context.away_team.id: 0}:
\* a dict has one entry for a key, however often the key is written.
runs_at_end ==
  /\ pc = "runs_at_end"
  /\ scores' = [id \in {context.home_team.id, context.away_team.id} |-> 0]
  /\ turn' = 0
  /\ pc' = "for play"
  /\ UNCHANGED <<batch, doc, parsed, run, first, tokens, outcome, error,
                 context, plays, play_type, contents, movements>>

\* One turn of "for play in game.plays".
runs_at_end_play ==
  /\ pc = "for play"
  /\ turn < Len(plays)
  /\ scores' = IF plays[turn + 1].contents.movements = None THEN scores
               ELSE runs_at_end_movements(plays[turn + 1].contents.movements[1],
                                          plays[turn + 1].play_type, scores)
  /\ turn' = turn + 1
  /\ UNCHANGED <<batch, doc, parsed, run, first, pc, tokens, outcome, error,
                 context, plays, play_type, contents, movements>>

\* return scores
runs_at_end_return ==
  /\ pc = "for play"
  /\ turn = Len(plays)
  /\ pc' = "returned"
  /\ UNCHANGED <<analyse, batch, doc, parsed, run, first, tokens, outcome,
                 error, context, plays, play_type, contents, movements>>

AnalyseNext == runs_at_end \/ runs_at_end_play \/ runs_at_end_return

AnalyseSpec == AnalyseInit /\ [][AnalyseNext]_vars

C17_DispatchExhaustive ==
  /\ PlayType \subseteq Parser_cases
  /\ pc # "test_parse" => parsed.err # "unsupported"

\* C17 witness: Parser.parse has returned a Game with a Balk, the play-type
\* of the last-but-one case.
C17_Witness ==
  /\ pc # "test_parse"
  /\ parsed.err = "none"
  /\ \E i \in 1..Len(parsed.val.plays) : parsed.val.plays[i].play_type = "BALK"

\* The Movement values the movements of a transcript stand for, in the order
\* of the text.
MovementsOf(moves) ==
  [i \in 1..Len(moves) |->
     CASE moves[i] = "home" -> Movement("John Roe", 4, 4, FALSE)
       [] moves[i] = "out" -> Movement("Doe", 1, 2, TRUE)
       [] OTHER -> Movement("Doe", 0, 5, FALSE)]

\* C18: the movements loop starts with an empty list after [MOVEMENTS]; with
\* [PLAY] or [GAME_END] as the next token it ends, leaves that token in
\* place and the play gets the list as it is; with any other token it adds
\* one movement at the end of the list and takes tokens, or fails.  So every
\* play of a Game returned, by either parser, has the movements of its
\* section, as many as in the text and in the order of the text.
C18_MovementsLoop ==
  [][/\ (pc # "movements" /\ pc' = "movements") => movements' = <<>>
     /\ (pc = "movements" /\ tokens # <<>>) =>
          IF Head(tokens) \in {"[PLAY]", "[GAME_END]"}
          THEN /\ pc' = "plays"
               /\ tokens' = tokens
               /\ plays' = Append(plays, plays'[Len(plays')])
               /\ plays'[Len(plays')].contents.movements = Some(movements)
          ELSE \/ pc' = "done" /\ outcome' \in {"IndexError", "ValueError"}
               \/ /\ pc' = "movements"
                  /\ Len(movements') = Len(movements) + 1
                  /\ SubSeq(movements', 1, Len(movements)) = movements
                  /\ Len(tokens') < Len(tokens)
                  /\ tokens' = SubSeq(tokens, Len(tokens) - Len(tokens') + 1,
                                      Len(tokens))
     /\ (pc' = "done" /\ outcome' = "ok") =>
          \A i \in 1..Len(plays') :
            plays'[i].play_type # "GAME_ADVISORY" =>
              plays'[i].contents.movements = Some(MovementsOf(doc.moves))
     /\ (pc = "test_parse" /\ parsed'.err = "none") =>
          \A i \in 1..Len(parsed'.val.plays) :
            parsed'.val.plays[i].play_type # "GAME_ADVISORY" =>
              parsed'.val.plays[i].contents.movements
                = Some(MovementsOf(doc.moves))]_vars

\* C18 witness: a Game returned with a play of two different movements, and
\* the next play parsed after it.
C18_Witness ==
  /\ pc = "done"
  /\ outcome = "ok"
  /\ doc.moves = <<"out", "home">>
  /\ Len(plays) = 2
  /\ plays[1].contents.movements = Some(MovementsOf(doc.moves))

\* C19: on every text the two parsers end alike: parse_game returns a Game
\* exactly when Parser.parse does, and then the two Games are equal.
C19_ParsersAgree ==
  pc = "done" =>
    /\ (outcome = "ok") <=> (parsed.err = "none")
    /\ outcome = "ok" =>
         /\ context = parsed.val.context
         /\ plays = parsed.val.plays

\* The names that follow the [FIELDERS] marker of a kind of play.
FieldersOf(kind) ==
  CASE kind = "Groundout no fielders" -> <<>>
    [] kind = "Groundout two fielders" -> <<"Doe", "John Roe">>
    [] OTHER -> <<"Doe">>

\* C20: in a Game returned, by either parser, the fielders of a play are
\* the names that follow its [FIELDERS] marker, one entry for each name, in
\* the order of the text, and none when no name follows.
C20_OneEntryPerFielder ==
  /\ (pc = "done" /\ outcome = "ok" /\ Len(plays) = Len(doc.plays)) =>
       \A i \in 1..Len(plays) :
         (/\ plays[i].play_type = KindType(doc.plays[i])
          /\ plays[i].contents.fielders # None) =>
           plays[i].contents.fielders = Some(FieldersOf(doc.plays[i]))
  /\ (pc # "test_parse" /\ parsed.err = "none") =>
       \A i \in 1..Len(parsed.val.plays) :
         parsed.val.plays[i].contents.fielders # None =>
           parsed.val.plays[i].contents.fielders
             = Some(FieldersOf(doc.plays[i]))

\* The builder that a step of the parse at pc runs on the token list.
Builder(p, toks) ==
  CASE p = "context" -> GameContext_from_tokens(toks)
    [] p = "plays" -> Play_type(toks)
    [] p = "contents" -> PlayContents_from_tokens(toks)
    [] OTHER -> Movement_from_tokens(toks)

\* s is what is left of t after some of its first elements are taken away.
IsSuffix(s, t) ==
  /\ Len(s) <= Len(t)
  /\ s = SubSeq(t, Len(t) - Len(s) + 1, Len(t))

\* C21: once the token list is made, a step of the parse only takes tokens
\* away from its front, and what a builder builds is decided by the tokens
\* it takes and the one token after them (its scan for the end of a name
\* being within these): run on no more than these tokens it builds the same
\* value and leaves that one token.
C21_LeftToRight ==
  [][/\ pc \notin {"parse_game", "done"} => IsSuffix(tokens', tokens)
     /\ (pc \in {"context", "plays", "contents", "movements"}
         /\ tokens' # tokens) =>
          LET k == Len(tokens) - Len(tokens')
              short == SubSeq(tokens, 1, IF k < Len(tokens) THEN k + 1 ELSE k)
              r == Builder(pc, short)
          IN /\ k > 0
             /\ r.err = "none"
             /\ r.val = Builder(pc, tokens).val
             /\ r.rest = SubSeq(short, k + 1, Len(short))]_vars

\* C21 witness: a Game is returned after two movements, one with a runner
\* name of two tokens and one with [out], were taken from the list, which
\* is left with its [GAME_END] token.
C21_Witness ==
  /\ pc = "done"
  /\ outcome = "ok"
  /\ doc.moves = <<"home", "out">>
  /\ Len(plays) = 1
  /\ tokens = <<"[GAME_END]">>

\* A step of a call of parse_game fails, or takes at least one token from the
\* list, or is the end of a movements loop, after which the next play takes
\* one.
TakesTokens ==
  pc \in {"context", "game_start", "plays", "contents", "movements"} =>
    \/ pc' = "done"
    \/ Len(tokens') < Len(tokens)
    \/ pc = "movements" /\ pc' = "plays" /\ tokens' = tokens

\* C22: a call of parse_game ends, with a Game or with an exception, on
\* every text: each of its steps takes tokens or fails, so it never loops
\* forever.
C22_ParseTerminates ==
  /\ [][TakesTokens]_vars
  /\ (pc = "parse_game") ~> (pc = "done")

\* C22 witness: the parse of a text cut in the middle of a play has ended,
\* with an IndexError.
C22_Witness ==
  /\ pc = "done"
  /\ doc.cut > 25
  /\ outcome = "IndexError"
  /\ plays = <<>>

\* The movements of the Game that score: they end at base 4, are not out,
\* and do not start at base 4 unless the play is a HOME_RUN.
Scoring ==
  {ij \in (1..Len(plays)) \X (1..MaxMoves + 1) :
     /\ plays[ij[1]].contents.movements # None
     /\ ij[2] <= Len(plays[ij[1]].contents.movements[1])
     /\ LET m == plays[ij[1]].contents.movements[1][ij[2]] IN
        /\ m.end_base = 4
        /\ ~m.is_out
        /\ m.start_base = 4 => plays[ij[1]].play_type = "HOME_RUN"}

RunsOf(names) ==
  Cardinality({ij \in Scoring :
                 plays[ij[1]].contents.movements[1][ij[2]].runner \in names})

\* C23: runs_at_end returns the scoring movements of each team under the id
\* of the team, those of a runner of both rosters under the home team's
\* only and those of a runner of neither under none, and the Game it is
\* given stays as it is.
C23_RunsPerTeam ==
  [][/\ context' = context
     /\ plays' = plays
     /\ pc' = "returned" =>
          /\ DOMAIN scores' = {context.home_team.id, context.away_team.id}
          /\ scores'[context.home_team.id] = RunsOf(home_team_player_names)
          /\ scores'[context.away_team.id] =
               RunsOf(away_team_player_names \ home_team_player_names)]_vars

====
